---- MODULE Spec2Model ----
(***************************************************************************)
(* Model of the table comparison engine of bricks-use:                     *)
(*   src/src/tools/table_compare_tool.py   (TableCompareTool)              *)
(*   src/src/services/databricks_service.py (dataset materialization)      *)
(*                                                                         *)
(* A text is a sequence of tokens; the token NL is the newline character   *)
(* and every other token is a newline-free piece of text.  A file is the   *)
(* sequence of its lines.  File names are strings, built as the code       *)
(* builds them.                                                            *)
(***************************************************************************)
EXTENDS Integers, Sequences, FiniteSets, TLC

VARIABLES
    bounder,      \* the Output Bounder applied to a text, and to its own output
    procs,        \* the requests (calls of compare_tables / quick_compare_tables)
    db,           \* the tables of the workspace, as the collaborator reads them
    disk,         \* the files of the file system: path -> lines
    args,         \* per request: the arguments of the call
    pc,           \* per request: where the call stands
    csv_path,     \* per request: <<csv_path1, csv_path2>>
    rung,         \* per request: index into INCREMENTAL_SAMPLE_SIZES
    sample_file,  \* per request: <<sample_file1, sample_file2>>
    pend,         \* per request: what the try block of the rung ended with
    diff_result,  \* per request: what _run_diff_command returned
    result,       \* per request: what the call returned to its caller
    log,          \* per request: the file and process operations it performed
    cause,        \* per request: the failure that ended the call, if any
    cli,          \* per request: the command line tool's exit, if it made the call
    qt,           \* a call of QueryTool.execute_query: its arguments and its result
    server        \* a DatabricksMCPServer: its fields and its initialize calls

vars == <<bounder, procs, db, disk, args, pc, csv_path, rung, sample_file,
          pend, diff_result, result, log, cause, cli, qt, server>>

engine == <<procs, db, disk, args, pc, csv_path, rung, sample_file,
            pend, diff_result, result, log, cause, cli>>

flow == <<engine, qt, server>>

----------------------------------------------------------------------------
(* Program constants, table_compare_tool.py:16-26 *)

DEFAULT_DIFF_LINES == 10
MAX_DIFF_OUTPUT_LINES == 10
DIFF_TIMEOUT_SECONDS == 300
DIFF_SUCCESS_CODE == 0
DIFF_DIFFERENT_CODE == 1
UNIFIED_DIFF_FORMAT == "-u"
INCREMENTAL_SAMPLE_SIZES_without_500 == <<5, 25, 100>>
INCREMENTAL_SAMPLE_SIZES == <<5, 25, 100, 500>>

(* Bounds of the model *)

MaxTextLen == 12

----------------------------------------------------------------------------
(* Texts *)

NL == "\n"

Min(a, b) == IF a <= b THEN a ELSE b

\* str.split('\n'): the pieces between the newlines; a text without a
\* newline (the empty text too) is one piece.
RECURSIVE split(_)
split(text) ==
    IF \A i \in 1..Len(text) : text[i] # NL
    THEN <<text>>
    ELSE LET i == CHOOSE i \in 1..Len(text) :
                      text[i] = NL /\ \A j \in 1..(i - 1) : text[j] # NL
         IN <<SubSeq(text, 1, i - 1)>> \o split(SubSeq(text, i + 1, Len(text)))

\* '\n'.join(lines)
RECURSIVE join(_)
join(lines) ==
    IF Len(lines) = 0 THEN <<>>
    ELSE IF Len(lines) = 1 THEN lines[1]
    ELSE lines[1] \o <<NL>> \o join(Tail(lines))

\* The f-string of _limit_diff_output: it starts with a newline.
truncation_msg(truncated_count) ==
    << NL, "... (truncated ", ToString(truncated_count),
       " more lines, showing first ", ToString(MAX_DIFF_OUTPUT_LINES),
       " lines)" >>

\* TableCompareTool._limit_diff_output
_limit_diff_output(diff_output) ==
    LET lines == split(diff_output) IN
    IF Len(lines) <= MAX_DIFF_OUTPUT_LINES
    THEN diff_output
    ELSE LET limited_lines == SubSeq(lines, 1, MAX_DIFF_OUTPUT_LINES)
             total_lines == Len(lines)
             truncated_count == total_lines - MAX_DIFF_OUTPUT_LINES
         IN join(Append(limited_lines, truncation_msg(truncated_count)))

----------------------------------------------------------------------------
(* The Output Bounder applied to arbitrary texts *)

Alphabet == {"a", NL}

Texts == UNION {[1..n -> Alphabet] : n \in 0..MaxTextLen}

BounderInit ==
    /\ bounder \in {[pc |-> "input", text |-> t, out |-> <<>>, again |-> <<>>] : t \in Texts}
    /\ procs = {}
    /\ db = <<>>
    /\ disk = <<>>
    /\ args = <<>>
    /\ pc = <<>>
    /\ csv_path = <<>>
    /\ rung = <<>>
    /\ sample_file = <<>>
    /\ pend = <<>>
    /\ diff_result = <<>>
    /\ result = <<>>
    /\ log = <<>>
    /\ cause = <<>>
    /\ cli = <<>>
    /\ qt = <<>>
    /\ server = <<>>

\* bound(t)
Bound ==
    /\ bounder.pc = "input"
    /\ bounder' = [bounder EXCEPT !.pc = "bounded",
                                  !.out = _limit_diff_output(bounder.text)]
    /\ UNCHANGED flow

\* bound(bound(t))
Rebound ==
    /\ bounder.pc = "bounded"
    /\ bounder' = [bounder EXCEPT !.pc = "rebounded",
                                  !.again = _limit_diff_output(bounder.out)]
    /\ UNCHANGED flow

BounderNext == Bound \/ Rebound

SpecBound == BounderInit /\ [][BounderNext]_vars

----------------------------------------------------------------------------
(* Paths: a path is its directory and its base name *)

join_path(dir, base) == [dir |-> dir, base |-> base]
dirname(path) == path.dir
basename(path) == path.base
PathStr(path) == path.dir \o "/" \o path.base

NoPath == join_path("", "")

\* os.path.exists
exists(d, path) == path \in DOMAIN d

\* open(path, 'w').write(content), df.to_csv(path)
write_file(d, path, content) ==
    [q \in DOMAIN d \cup {path} |-> IF q = path THEN content ELSE d[q]]

\* os.remove
remove_file(d, path) == [q \in DOMAIN d \ {path} |-> d[q]]

\* os.path.getsize, in lines
getsize(d, path) == Len(d[path])

----------------------------------------------------------------------------
(* Configuration, config.py:13-15, and the tables of the workspace *)

None == "<None>"
DEFAULT_CATALOG == "main"
DEFAULT_SCHEMA == "default"
DEFAULT_TEMP_DIR == "/tmp/databricks_mcp"
CSV_FILE_EXTENSION == ".csv"

MaxLines == 600

Ladder == {INCREMENTAL_SAMPLE_SIZES[i] : i \in DOMAIN INCREMENTAL_SAMPLE_SIZES}

\* A table's serialization is a header line and its rows; Dataset(n, k) has
\* n lines, line i reading i, but for line k (if any), which reads -k.
Dataset(n, k) == [len |-> n, chg |-> k]
LinesOf(ds) == [i \in 1..ds.len |-> IF i = ds.chg THEN 0 - i ELSE i]

\* The line numbers at which the model's tables differ or end: around each
\* rung of the ladder, and beyond the last one.
KSet == {1, 2} \cup Ladder \cup {s + 1 : s \in Ladder} \cup {MaxLines}

TablesA == {Dataset(3, 0), Dataset(MaxLines, 0)}
TablesB == {Dataset(3, 0), Dataset(3, 2), Dataset(MaxLines, 0)}
           \cup {Dataset(MaxLines, k) : k \in KSet}
           \cup {Dataset(k - 1, 0) : k \in KSet \ {1}}

\* DatabricksService._build_full_table_name
_build_full_table_name(table_name, catalog, schema) ==
    LET c == IF catalog = None THEN DEFAULT_CATALOG ELSE catalog
        s == IF schema = None THEN DEFAULT_SCHEMA ELSE schema
    IN c \o "." \o s \o "." \o table_name

\* The references a caller names: table t1 of the default catalog holds
\* dataset A, the other tables hold dataset B.
TableRef(table, catalog, schema) == [table |-> table, catalog |-> catalog, schema |-> schema]
RefA == TableRef("t1", None, None)
RefsB == { TableRef("t2", None, None),
           TableRef("t1", "dev", None),
           TableRef("t1", None, "staging"),
           TableRef("sample_500_1_t1", None, None) }

\* Whether a full table name is that of the table holding dataset A, or of
\* one holding dataset B.
IsTableA(full_table_name) ==
    full_table_name = _build_full_table_name(RefA.table, RefA.catalog, RefA.schema)
IsTableB(full_table_name) ==
    \E ref \in RefsB :
        full_table_name = _build_full_table_name(ref.table, ref.catalog, ref.schema)

\* The column lists of the model's tables: up to MaxCols columns, each a
\* name and a declared type; a name may repeat.
MaxCols == 2
ColNames == {"id", "email"}
DataTypes == {"int", "string"}
Columns == [col_name : ColNames, data_type : DataTypes]
ColumnLists == UNION {[1..n -> Columns] : n \in 0..MaxCols}
DefaultColumns == <<[col_name |-> "id", data_type |-> "int"]>>

\* SELECT * FROM full_table_name: the lines of the table's serialization
\* (<<>> for a table that does not exist).
TableLines(d, full_table_name) ==
    IF IsTableA(full_table_name) THEN LinesOf(d.A)
    ELSE IF IsTableB(full_table_name) THEN LinesOf(d.B)
    ELSE <<>>

----------------------------------------------------------------------------
(* Exceptions *)

Exc(type, msg) == [type |-> type, msg |-> msg]

\* The classes the model raises that derive from Exception (all of them do).
ExceptionTypes == {"Exception", "DatabricksServiceError", "TimeoutExpired",
                   "CalledProcessError", "FileNotFoundError"}

\* DatabricksService._save_dataframe_to_csv: the path of the CSV file
_save_dataframe_to_csv(table_name) ==
    join_path(DEFAULT_TEMP_DIR, table_name \o CSV_FILE_EXTENSION)

\* DatabricksService.get_table_data: [ok, path, lines] or [ok, exc].
\* query_ok is whether execute_query got an answer from the warehouse.
get_table_data(d, ref, query_ok) ==
    LET full_table_name == _build_full_table_name(ref.table, ref.catalog, ref.schema)
        lines == TableLines(d, full_table_name)
    IN IF ~query_ok
       THEN [ok |-> FALSE,
             exc |-> Exc("DatabricksServiceError",
                         <<"Query execution failed: ", full_table_name>>)]
       ELSE IF Len(lines) <= 1
       THEN [ok |-> FALSE,
             exc |-> Exc("DatabricksServiceError",
                         <<"No data found in table ", full_table_name>>)]
       ELSE [ok |-> TRUE, path |-> _save_dataframe_to_csv(ref.table), lines |-> lines]

\* DatabricksService.get_table_info: [ok, info] or [ok, exc].  The row
\* count is the number of lines after the header line.
get_table_info(d, ref, query_ok) ==
    LET full_table_name == _build_full_table_name(ref.table, ref.catalog, ref.schema)
    IN IF ~query_ok
       THEN [ok |-> FALSE,
             exc |-> Exc("DatabricksServiceError",
                         <<"Query execution failed: ", full_table_name>>)]
       ELSE [ok |-> TRUE,
             info |-> [table_name |-> full_table_name,
                       columns |-> IF IsTableA(full_table_name) THEN d.colsA ELSE d.colsB,
                       row_count |-> Len(TableLines(d, full_table_name)) - 1]]


----------------------------------------------------------------------------
(* The external tools: head and diff *)

\* What the environment does to one run of an external tool.
Outcomes == {"ok", "fail", "timeout"}

\* head -n sample_size original_file, under subprocess.run(..., timeout=30)
head(d, original_file, sample_size, outcome) ==
    IF outcome = "timeout"
    THEN [timed_out |-> TRUE]
    ELSE IF outcome = "fail" \/ ~exists(d, original_file)
    THEN [timed_out |-> FALSE, returncode |-> 1, stdout |-> <<>>,
          stderr |-> <<"head: cannot open ", PathStr(original_file), " for reading">>]
    ELSE [timed_out |-> FALSE, returncode |-> 0,
          stdout |-> SubSeq(d[original_file], 1, Min(sample_size, Len(d[original_file]))),
          stderr |-> <<>>]

\* The number of leading lines two files share, counted from line i on.
RECURSIVE CommonPrefix(_, _, _)
CommonPrefix(a, b, i) ==
    IF i > Len(a) \/ i > Len(b) \/ a[i] # b[i] THEN i - 1
    ELSE CommonPrefix(a, b, i + 1)

\* The number of trailing lines two files share, the first p lines left out.
RECURSIVE CommonSuffix(_, _, _, _)
CommonSuffix(a, b, p, j) ==
    IF j >= Len(a) - p \/ j >= Len(b) - p \/ a[Len(a) - j] # b[Len(b) - j] THEN j
    ELSE CommonSuffix(a, b, p, j + 1)

\* One line of diff output: its mark and the line, newline-terminated.
RECURSIVE Marked(_, _)
Marked(mark, lines) ==
    IF Len(lines) = 0 THEN <<>>
    ELSE <<mark \o ToString(lines[1]), NL>> \o Marked(mark, Tail(lines))

\* The output of diff -u<context> for two files that differ in one block:
\* the two header lines, the hunk header, the context before, the lines
\* removed, the lines added, the context after.
UnifiedDiff(file1, file2, a, b, context) ==
    LET p == CommonPrefix(a, b, 1)
        q == CommonSuffix(a, b, p, 0)
        before == SubSeq(a, p - Min(context, p) + 1, p)
        removed == SubSeq(a, p + 1, Len(a) - q)
        added == SubSeq(b, p + 1, Len(b) - q)
        after == SubSeq(a, Len(a) - q + 1, Len(a) - q + Min(context, q))
    IN <<"--- " \o PathStr(file1), NL, "+++ " \o PathStr(file2), NL, "@@", NL>>
       \o Marked(" ", before) \o Marked("-", removed)
       \o Marked("+", added) \o Marked(" ", after)

\* TableCompareTool._build_diff_command
_build_diff_command(file1, file2, context_lines) ==
    [argv |-> <<"diff", UNIFIED_DIFF_FORMAT \o ToString(context_lines),
                PathStr(file1), PathStr(file2)>>,
     context |-> context_lines, file1 |-> file1, file2 |-> file2]

\* TableCompareTool._execute_diff_command: diff under
\* subprocess.run(..., timeout=DIFF_TIMEOUT_SECONDS).  diff exits 0 for equal
\* files, 1 for different files and 2 for trouble (a negative context
\* length, a missing file).
_execute_diff_command(d, cmd, outcome) ==
    IF outcome = "timeout"
    THEN [timed_out |-> TRUE]
    ELSE IF cmd.context < 0
    THEN [timed_out |-> FALSE, returncode |-> 2, stdout |-> <<>>,
          stderr |-> <<"diff: invalid context length">>]
    ELSE IF outcome = "fail" \/ ~exists(d, cmd.file1) \/ ~exists(d, cmd.file2)
    THEN [timed_out |-> FALSE, returncode |-> 2, stdout |-> <<>>,
          stderr |-> <<"diff: No such file or directory">>]
    ELSE IF d[cmd.file1] = d[cmd.file2]
    THEN [timed_out |-> FALSE, returncode |-> 0, stdout |-> <<>>, stderr |-> <<>>]
    ELSE [timed_out |-> FALSE, returncode |-> 1,
          stdout |-> UnifiedDiff(cmd.file1, cmd.file2, d[cmd.file1], d[cmd.file2],
                                 cmd.context),
          stderr |-> <<>>]

----------------------------------------------------------------------------
(* The sampler's helpers *)

\* TableCompareTool._create_sample_file: the name of the sample file
sample_name(original_file, sample_size, suffix) ==
    join_path(dirname(original_file),
              "sample_" \o ToString(sample_size) \o suffix \o "_"
                  \o basename(original_file))

\* TableCompareTool._create_sample_file: [ok, temp_file, content], or
\* [ok, exc] when head timed out or exited with a status other than 0.
_create_sample_file(d, original_file, sample_size, suffix, outcome) ==
    LET temp_file == sample_name(original_file, sample_size, suffix)
        res == head(d, original_file, sample_size, outcome)
    IN IF res.timed_out
       THEN [ok |-> FALSE, exc |-> Exc("TimeoutExpired", <<"head timed out after 30 seconds">>)]
       ELSE IF res.returncode # 0
       THEN [ok |-> FALSE,
             exc |-> Exc("Exception", <<"Failed to create sample file: ">> \o res.stderr)]
       ELSE [ok |-> TRUE, temp_file |-> temp_file, content |-> res.stdout]

\* TableCompareTool._cleanup_sample_files: the paths it removes, in order
RECURSIVE _cleanup_sample_files(_, _)
_cleanup_sample_files(d, file_paths) ==
    IF Len(file_paths) = 0 THEN d
    ELSE _cleanup_sample_files(
             IF exists(d, file_paths[1]) THEN remove_file(d, file_paths[1]) ELSE d,
             Tail(file_paths))

\* TableCompareTool._process_diff_result: [ok, value] or [ok, exc]
_process_diff_result(cmd, res) ==
    IF res.returncode = DIFF_SUCCESS_CODE
    THEN [ok |-> TRUE,
          value |-> [command |-> cmd.argv, output |-> <<"Files are identical">>,
                     identical |-> TRUE, return_code |-> res.returncode]]
    ELSE IF res.returncode = DIFF_DIFFERENT_CODE
    THEN [ok |-> TRUE,
          value |-> [command |-> cmd.argv, output |-> _limit_diff_output(res.stdout),
                     identical |-> FALSE, return_code |-> res.returncode]]
    ELSE [ok |-> FALSE,
          exc |-> Exc("CalledProcessError",
                      <<"Command ">> \o cmd.argv
                          \o <<" returned non-zero exit status ",
                               ToString(res.returncode), ".">>)]

\* rung_outcome with a tooling error taken for "no difference": an exit
\* status other than 0 and 1 lets the sampler go on to the next rung.
rung_outcome_error_as_identical(cmd, res, sample_size, file1, file2) ==
    IF res.timed_out
    THEN [kind |-> "raise", exc |-> Exc("TimeoutExpired", <<"diff timed out">>)]
    ELSE IF res.returncode = DIFF_DIFFERENT_CODE
    THEN [kind |-> "return",
          value |-> [command |-> <<"diff (sample ", ToString(sample_size), " lines) ",
                                   PathStr(file1), " ", PathStr(file2)>>,
                     output |-> _limit_diff_output(res.stdout),
                     identical |-> FALSE,
                     return_code |-> res.returncode,
                     sample_size |-> sample_size]]
    ELSE [kind |-> "continue"]

\* rung_outcome without the return of line 283: a rung that reports a
\* difference lets the sampler go on to the next rung.
rung_outcome_escalates_after_difference(cmd, res, sample_size, file1, file2) ==
    IF res.timed_out
    THEN [kind |-> "raise", exc |-> Exc("TimeoutExpired", <<"diff timed out">>)]
    ELSE IF res.returncode \in {DIFF_SUCCESS_CODE, DIFF_DIFFERENT_CODE}
    THEN [kind |-> "continue"]
    ELSE [kind |-> "raise", exc |-> _process_diff_result(cmd, res).exc]

\* What the body of the try block of one rung ends with, given the run of
\* diff (_smart_diff_with_sampling, lines 269-289).
rung_outcome(cmd, res, sample_size, file1, file2) ==
    IF res.timed_out
    THEN [kind |-> "raise", exc |-> Exc("TimeoutExpired", <<"diff timed out">>)]
    ELSE IF res.returncode = DIFF_DIFFERENT_CODE
    THEN LET diff_res == _process_diff_result(cmd, res).value
             command_text == <<"diff (sample ", ToString(sample_size), " lines) ",
                               PathStr(file1), " ", PathStr(file2)>>
         IN [kind |-> "return",
             value |-> [command |-> command_text, output |-> diff_res.output,
                        identical |-> diff_res.identical,
                        return_code |-> diff_res.return_code,
                        sample_size |-> sample_size]]
    ELSE IF res.returncode # DIFF_SUCCESS_CODE
    THEN LET processed == _process_diff_result(cmd, res)
         IN IF processed.ok THEN [kind |-> "return", value |-> processed.value]
            ELSE [kind |-> "raise", exc |-> processed.exc]
    ELSE [kind |-> "continue"]

\* _smart_diff_with_sampling, lines 297-304: every rung found no difference
all_rungs_identical ==
    LET max_sample == INCREMENTAL_SAMPLE_SIZES[Len(INCREMENTAL_SAMPLE_SIZES)]
    IN [command |-> <<"diff (smart sampling up to ", ToString(max_sample), " lines)">>,
        output |-> <<"Files are identical (verified through progressive sampling)">>,
        identical |-> TRUE,
        return_code |-> DIFF_SUCCESS_CODE,
        sample_size |-> INCREMENTAL_SAMPLE_SIZES[Len(INCREMENTAL_SAMPLE_SIZES)]]

\* _run_diff_command without its first except clause: a timeout is
\* reported by the last one, as any other exception.
_run_diff_command_except_without_timeout_clause(e) ==
    IF e.type = "CalledProcessError"
    THEN Exc("Exception", <<"Diff command failed: ">> \o e.msg)
    ELSE IF e.type \in ExceptionTypes
    THEN Exc("Exception", <<"Error running diff: ">> \o e.msg)
    ELSE e

\* TableCompareTool._run_diff_command, lines 236-243: the exception that
\* leaves it, for an exception raised inside it
_run_diff_command_except(e) ==
    IF e.type = "TimeoutExpired"
    THEN Exc("Exception", <<"Diff command timed out after ",
                            ToString(DIFF_TIMEOUT_SECONDS \div 60), " minutes">>)
    ELSE IF e.type = "CalledProcessError"
    THEN Exc("Exception", <<"Diff command failed: ">> \o e.msg)
    ELSE IF e.type \in ExceptionTypes
    THEN Exc("Exception", <<"Error running diff: ">> \o e.msg)
    ELSE e

\* compare_tables with error results that do not carry str(error).
compare_tables_except_generic_message(e) ==
    IF e.type \in ExceptionTypes
    THEN [status |-> "returned",
          value |-> [success |-> FALSE, error |-> <<"Comparison failed">>]]
    ELSE [status |-> "raised", value |-> e]

\* compare_tables without its second except clause: only a
\* DatabricksServiceError is turned into an error result.
compare_tables_except_service_only(e) ==
    IF e.type = "DatabricksServiceError"
    THEN [status |-> "returned", value |-> [success |-> FALSE, error |-> e.msg]]
    ELSE [status |-> "raised", value |-> e]

\* TableCompareTool.compare_tables, lines 88-91: what the call ends with for
\* an exception raised in its try block
compare_tables_except(e) ==
    IF e.type = "DatabricksServiceError"
    THEN [status |-> "returned", value |-> [success |-> FALSE, error |-> e.msg]]
    ELSE IF e.type \in ExceptionTypes
    THEN [status |-> "returned", value |-> [success |-> FALSE, error |-> e.msg]]
    ELSE [status |-> "raised", value |-> e]

\* TableCompareTool._create_comparison_result
_create_comparison_result(table1, table2, csv_path1, csv_path2, diff_res, file_info) ==
    [success |-> TRUE,
     table1 |-> table1,
     table2 |-> table2,
     csv_path1 |-> csv_path1,
     csv_path2 |-> csv_path2,
     file_size1 |-> file_info.size1,
     file_size2 |-> file_info.size2,
     diff_output |-> diff_res.output,
     files_identical |-> diff_res.identical,
     diff_command |-> diff_res.command]


----------------------------------------------------------------------------
(* compare_tables, one call per request.  A call is a sequence of steps,   *)
(* one per file or process operation, so that the file system is seen      *)
(* between the operations.                                                 *)

DiffLines == {0 - 1, 0, 5, DEFAULT_DIFF_LINES, MAX_DIFF_OUTPUT_LINES + 1}

Suffix(i) == IF i = 1 THEN "_1" ELSE "_2"

\* actual_context_lines without the cap of line 231.
actual_context_lines_uncapped(context_lines) == context_lines

\* TableCompareTool._run_diff_command, line 231
actual_context_lines(context_lines) == Min(context_lines, MAX_DIFF_OUTPUT_LINES)

Event(op, size, path, rc, timed_out) ==
    [op |-> op, size |-> size, path |-> path, rc |-> rc, timed_out |-> timed_out]

Pending == [status |-> "pending", value |-> <<>>]

\* The command line tool before it has returned.
NotExited == [status |-> "running"]

FullArgs == {[kind |-> "full", ref1 |-> RefA, ref2 |-> ref2, diff_lines |-> n] :
                ref2 \in RefsB, n \in DiffLines}

InitCall(ps, argsets) ==
    /\ procs = ps
    /\ bounder = [pc |-> "off", text |-> <<>>, out |-> <<>>, again |-> <<>>]
    /\ disk = <<>>
    /\ args \in [ps -> argsets]
    /\ pc = [r \in ps |-> IF args[r].kind = "full" THEN "retrieve1" ELSE "quick"]
    /\ csv_path = [r \in ps |-> <<NoPath, NoPath>>]
    /\ rung = [r \in ps |-> 1]
    /\ sample_file = [r \in ps |-> <<NoPath, NoPath>>]
    /\ pend = [r \in ps |-> [kind |-> "none"]]
    /\ diff_result = [r \in ps |-> <<>>]
    /\ result = [r \in ps |-> Pending]
    /\ log = [r \in ps |-> <<>>]
    /\ cause = [r \in ps |-> "none"]
    /\ cli = [r \in ps |-> NotExited]
    /\ qt = <<>>
    /\ server = <<>>

QuickArgs == {[kind |-> "quick", ref1 |-> RefA, ref2 |-> ref2] : ref2 \in RefsB}

\* One call of compare_tables on tables of many shapes.
InitFull ==
    /\ db \in {[A |-> a, B |-> b, colsA |-> DefaultColumns, colsB |-> DefaultColumns] :
                a \in TablesA, b \in TablesB}
    /\ InitCall({1}, FullArgs)

\* One call of quick_compare_tables on tables of many column lists.
InitQuick ==
    /\ db \in {[A |-> a, B |-> b, colsA |-> c1, colsB |-> c2] :
                a \in {Dataset(3, 0)}, b \in {Dataset(2, 0), Dataset(MaxLines, 0)},
                c1 \in ColumnLists, c2 \in ColumnLists}
    /\ InitCall({1}, QuickArgs)

Init == InitFull \/ InitQuick

\* The call of request r ends: with the result of the except clauses of
\* compare_tables for exception e, raised because of `why`.
Fails(r, e, why) ==
    /\ result' = [result EXCEPT ![r] = compare_tables_except(e)]
    /\ cause' = [cause EXCEPT ![r] = why]
    /\ pc' = [pc EXCEPT ![r] = "done"]

\* TableCompareTool._retrieve_table_data: get_table_data for table i
Retrieve(r, i) ==
    /\ pc[r] = (IF i = 1 THEN "retrieve1" ELSE "retrieve2")
    /\ \E query_ok \in BOOLEAN :
         LET ref == IF i = 1 THEN args[r].ref1 ELSE args[r].ref2
             got == get_table_data(db, ref, query_ok)
         IN IF got.ok
            THEN /\ disk' = write_file(disk, got.path, got.lines)
                 /\ csv_path' = [csv_path EXCEPT ![r][i] = got.path]
                 /\ log' = [log EXCEPT ![r] =
                              Append(@, Event("to_csv", 0, got.path, 0, FALSE))]
                 /\ pc' = [pc EXCEPT ![r] = IF i = 1 THEN "retrieve2" ELSE "sample1"]
                 /\ UNCHANGED <<result, cause>>
            ELSE /\ Fails(r, got.exc, "DataUnavailable")
                 /\ UNCHANGED <<disk, csv_path, log>>
    /\ UNCHANGED <<qt, server, cli, bounder, procs, db, args, rung, sample_file, pend, diff_result>>

\* _smart_diff_with_sampling, lines 262-267: the sample of file i
CreateSample(r, i) ==
    /\ pc[r] = (IF i = 1 THEN "sample1" ELSE "sample2")
    /\ \E outcome \in Outcomes :
         LET sample_size == INCREMENTAL_SAMPLE_SIZES[rung[r]]
             made == _create_sample_file(disk, csv_path[r][i], sample_size,
                                         Suffix(i), outcome)
         IN IF made.ok
            THEN /\ disk' = write_file(disk, made.temp_file, made.content)
                 /\ sample_file' = [sample_file EXCEPT ![r][i] = made.temp_file]
                 /\ log' = [log EXCEPT ![r] =
                              @ \o << Event("head", sample_size, csv_path[r][i], 0, FALSE),
                                      Event("write", sample_size, made.temp_file, 0, FALSE) >>]
                 /\ pc' = [pc EXCEPT ![r] = IF i = 1 THEN "sample2" ELSE "diff"]
                 /\ UNCHANGED <<result, cause>>
            ELSE /\ Fails(r, _run_diff_command_except(made.exc),
                          IF made.exc.type = "TimeoutExpired"
                          THEN "TimeoutError" ELSE "ExtractionError")
                 /\ log' = [log EXCEPT ![r] =
                              Append(@, Event("head", sample_size, csv_path[r][i], 1,
                                              made.exc.type = "TimeoutExpired"))]
                 /\ UNCHANGED <<disk, sample_file>>
    /\ UNCHANGED <<qt, server, cli, bounder, procs, db, args, csv_path, rung, pend, diff_result>>

\* _smart_diff_with_sampling, lines 271-273: the command of request r's
\* current rung, its context length the one _run_diff_command passes down
diff_cmd(r) ==
    _build_diff_command(sample_file[r][1], sample_file[r][2],
                        actual_context_lines(args[r].diff_lines))

\* _smart_diff_with_sampling, lines 269-289: the body of the try block
RunDiff(r) ==
    /\ pc[r] = "diff"
    /\ \E outcome \in Outcomes :
         LET sample_size == INCREMENTAL_SAMPLE_SIZES[rung[r]]
             cmd == diff_cmd(r)
             res == _execute_diff_command(disk, cmd, outcome)
         IN /\ pend' = [pend EXCEPT ![r] =
                          rung_outcome(cmd, res, sample_size,
                                       csv_path[r][1], csv_path[r][2])]
            /\ log' = [log EXCEPT ![r] =
                         Append(@, Event("diff", sample_size, NoPath,
                                         IF res.timed_out THEN 0 - 1 ELSE res.returncode,
                                         res.timed_out))]
    /\ pc' = [pc EXCEPT ![r] = "cleanup"]
    /\ UNCHANGED <<qt, server, cli, bounder, procs, db, disk, args, csv_path, rung, sample_file,
                   diff_result, result, cause>>

\* The events of _cleanup_sample_files: one removal per file that exists
RECURSIVE Removals(_, _, _)
Removals(d, file_paths, sample_size) ==
    IF Len(file_paths) = 0 THEN <<>>
    ELSE IF exists(d, file_paths[1])
    THEN <<Event("remove", sample_size, file_paths[1], 0, FALSE)>>
         \o Removals(remove_file(d, file_paths[1]), Tail(file_paths), sample_size)
    ELSE Removals(d, Tail(file_paths), sample_size)

\* _smart_diff_with_sampling, lines 291-304: the finally block, and then what
\* the try block ended with
Cleanup(r) ==
    /\ pc[r] = "cleanup"
    /\ disk' = _cleanup_sample_files(disk, sample_file[r])
    /\ log' = [log EXCEPT ![r] =
                 @ \o Removals(disk, sample_file[r], INCREMENTAL_SAMPLE_SIZES[rung[r]])]
    /\ pend' = [pend EXCEPT ![r] = [kind |-> "none"]]
    /\ CASE pend[r].kind = "continue" /\ rung[r] < Len(INCREMENTAL_SAMPLE_SIZES) ->
              /\ rung' = [rung EXCEPT ![r] = @ + 1]
              /\ pc' = [pc EXCEPT ![r] = "sample1"]
              /\ UNCHANGED <<diff_result, result, cause>>
         [] pend[r].kind = "continue" /\ rung[r] = Len(INCREMENTAL_SAMPLE_SIZES) ->
              /\ diff_result' = [diff_result EXCEPT ![r] = all_rungs_identical]
              /\ pc' = [pc EXCEPT ![r] = "fileinfo"]
              /\ UNCHANGED <<rung, result, cause>>
         [] pend[r].kind = "return" ->
              /\ diff_result' = [diff_result EXCEPT ![r] = pend[r].value]
              /\ pc' = [pc EXCEPT ![r] = "fileinfo"]
              /\ UNCHANGED <<rung, result, cause>>
         [] pend[r].kind = "raise" ->
              /\ Fails(r, _run_diff_command_except(pend[r].exc),
                       IF pend[r].exc.type = "TimeoutExpired"
                       THEN "TimeoutError" ELSE "ComparatorFailure")
              /\ UNCHANGED <<rung, diff_result>>
    /\ UNCHANGED <<qt, server, cli, bounder, procs, db, args, csv_path, sample_file>>

\* compare_tables, lines 79-86: _get_file_comparison_info and the result
FileInfo(r) ==
    /\ pc[r] = "fileinfo"
    /\ IF exists(disk, csv_path[r][1]) /\ exists(disk, csv_path[r][2])
       THEN /\ result' = [result EXCEPT ![r] =
                 [status |-> "returned",
                  value |-> _create_comparison_result(
                               args[r].ref1.table, args[r].ref2.table,
                               csv_path[r][1], csv_path[r][2], diff_result[r],
                               [size1 |-> getsize(disk, csv_path[r][1]),
                                size2 |-> getsize(disk, csv_path[r][2])])]]
            /\ pc' = [pc EXCEPT ![r] = "done"]
            /\ UNCHANGED cause
       ELSE Fails(r, Exc("FileNotFoundError", <<"[Errno 2] No such file or directory">>),
                  "FileSizeError")
    /\ UNCHANGED <<qt, server, cli, bounder, procs, db, disk, args, csv_path, rung, sample_file,
                   pend, diff_result, log>>

\* _calculate_comparison_metrics with the differences taken as magnitudes.
_calculate_comparison_metrics_absolute(info1, info2) ==
    LET rows == info1.row_count - info2.row_count
        cols == Len(info1.columns) - Len(info2.columns)
    IN [row_count_difference |-> IF rows < 0 THEN 0 - rows ELSE rows,
        column_count_difference |-> IF cols < 0 THEN 0 - cols ELSE cols]

\* TableCompareTool._calculate_comparison_metrics
_calculate_comparison_metrics(info1, info2) ==
    [row_count_difference |-> info1.row_count - info2.row_count,
     column_count_difference |-> Len(info1.columns) - Len(info2.columns)]

\* _compare_columns comparing the columns by name and declared type.
_compare_columns_by_name_and_type(cols1, cols2) ==
    LET col_names1 == {cols1[i].col_name : i \in DOMAIN cols1}
        col_names2 == {cols2[i].col_name : i \in DOMAIN cols2}
    IN [columns_match |-> {cols1[i] : i \in DOMAIN cols1} = {cols2[i] : i \in DOMAIN cols2},
        columns_missing_in_table2 |-> col_names1 \ col_names2,
        columns_missing_in_table1 |-> col_names2 \ col_names1]

\* _compare_columns with the two differences of lines 548-549 exchanged.
_compare_columns_exchanged(cols1, cols2) ==
    LET col_names1 == {cols1[i].col_name : i \in DOMAIN cols1}
        col_names2 == {cols2[i].col_name : i \in DOMAIN cols2}
    IN [columns_match |-> col_names1 = col_names2,
        columns_missing_in_table2 |-> col_names2 \ col_names1,
        columns_missing_in_table1 |-> col_names1 \ col_names2]

\* TableCompareTool._compare_columns.  The two lists of missing names are
\* made from sets, in no particular order: they are sets here.
_compare_columns(cols1, cols2) ==
    LET col_names1 == {cols1[i].col_name : i \in DOMAIN cols1}
        col_names2 == {cols2[i].col_name : i \in DOMAIN cols2}
    IN [columns_match |-> col_names1 = col_names2,
        columns_missing_in_table2 |-> col_names1 \ col_names2,
        columns_missing_in_table1 |-> col_names2 \ col_names1]

\* _create_quick_comparison_result with the two summaries exchanged.
_create_quick_comparison_result_exchanged(info1, info2, metrics, column_comparison) ==
    [success |-> TRUE, table1_info |-> info2, table2_info |-> info1,
     row_count_difference |-> metrics.row_count_difference,
     column_count_difference |-> metrics.column_count_difference,
     columns_match |-> column_comparison.columns_match,
     columns_missing_in_table2 |-> column_comparison.columns_missing_in_table2,
     columns_missing_in_table1 |-> column_comparison.columns_missing_in_table1]

\* TableCompareTool._create_quick_comparison_result
_create_quick_comparison_result(info1, info2, metrics, column_comparison) ==
    [success |-> TRUE, table1_info |-> info1, table2_info |-> info2,
     row_count_difference |-> metrics.row_count_difference,
     column_count_difference |-> metrics.column_count_difference,
     columns_match |-> column_comparison.columns_match,
     columns_missing_in_table2 |-> column_comparison.columns_missing_in_table2,
     columns_missing_in_table1 |-> column_comparison.columns_missing_in_table1]

\* TableCompareTool.quick_compare_tables, lines 485-488: what the call ends
\* with for an exception raised in its try block
quick_compare_tables_except(e) ==
    IF e.type = "DatabricksServiceError"
    THEN [status |-> "returned", value |-> [success |-> FALSE, error |-> e.msg]]
    ELSE IF e.type \in ExceptionTypes
    THEN [status |-> "returned", value |-> [success |-> FALSE, error |-> e.msg]]
    ELSE [status |-> "raised", value |-> e]

\* TableCompareTool.quick_compare_tables: the whole call
QuickCompare(r) ==
    /\ pc[r] = "quick"
    /\ \E ok1 \in BOOLEAN, ok2 \in BOOLEAN :
         LET got1 == get_table_info(db, args[r].ref1, ok1)
             got2 == get_table_info(db, args[r].ref2, ok2)
             asked1 == Event("get_table_info", 1, NoPath, 0, FALSE)
             asked2 == Event("get_table_info", 2, NoPath, 0, FALSE)
         IN IF ~got1.ok
            THEN /\ result' = [result EXCEPT ![r] = quick_compare_tables_except(got1.exc)]
                 /\ cause' = [cause EXCEPT ![r] = "DataUnavailable"]
                 /\ log' = [log EXCEPT ![r] = @ \o <<asked1>>]
            ELSE IF ~got2.ok
            THEN /\ result' = [result EXCEPT ![r] = quick_compare_tables_except(got2.exc)]
                 /\ cause' = [cause EXCEPT ![r] = "DataUnavailable"]
                 /\ log' = [log EXCEPT ![r] = @ \o <<asked1, asked2>>]
            ELSE /\ result' = [result EXCEPT ![r] =
                      [status |-> "returned",
                       value |-> _create_quick_comparison_result(
                                    got1.info, got2.info,
                                    _calculate_comparison_metrics(got1.info, got2.info),
                                    _compare_columns(got1.info.columns,
                                                     got2.info.columns))]]
                 /\ log' = [log EXCEPT ![r] = @ \o <<asked1, asked2>>]
                 /\ UNCHANGED cause
    /\ pc' = [pc EXCEPT ![r] = "done"]
    /\ UNCHANGED <<qt, server, cli, bounder, procs, db, disk, args, csv_path, rung, sample_file,
                   pend, diff_result>>

\* The --format option of the command line tool, cli.py:187
Formats == {"table", "json"}

\* cli.compare_tables_cmd, lines 161-180: what the command does with the
\* result of the call (res.status is "raised" had the call raised): the
\* stream it prints to and the status it returns, which main hands to
\* sys.exit.
compare_tables_cmd(format, quick, res) ==
    IF res.status = "raised"
    THEN [status |-> "exited", format |-> format, stream |-> "stderr", exit_code |-> 1]
    ELSE IF format = "json"
    THEN [status |-> "exited", format |-> format, stream |-> "stdout", exit_code |-> 0]
    ELSE IF ~res.value.success
    THEN [status |-> "exited", format |-> format, stream |-> "stderr", exit_code |-> 1]
    ELSE [status |-> "exited", format |-> format, stream |-> "stdout", exit_code |-> 0]

\* The command line tool, having made the call of request r, prints its
\* result and exits.
ExitCmd(r) ==
    /\ pc[r] = "done"
    /\ cli[r].status = "running"
    /\ \E format \in Formats :
         cli' = [cli EXCEPT ![r] =
                    compare_tables_cmd(format, args[r].kind = "quick", result[r])]
    /\ UNCHANGED <<bounder, procs, db, disk, args, pc, csv_path, rung, sample_file,
                   pend, diff_result, result, log, cause, qt, server>>

\* The steps of the requests: each is a step of some request.
QuickCompareTables == \E r \in procs : QuickCompare(r)
RetrieveTable1 == \E r \in procs : Retrieve(r, 1)
RetrieveTable2 == \E r \in procs : Retrieve(r, 2)
CreateSample1 == \E r \in procs : CreateSample(r, 1)
CreateSample2 == \E r \in procs : CreateSample(r, 2)
RunDiffOnSamples == \E r \in procs : RunDiff(r)
CleanupSamples == \E r \in procs : Cleanup(r)
GetFileInfo == \E r \in procs : FileInfo(r)
CompareTablesCmd == \E r \in procs : ExitCmd(r)

Next ==
    \/ QuickCompareTables
    \/ RetrieveTable1
    \/ RetrieveTable2
    \/ CreateSample1
    \/ CreateSample2
    \/ RunDiffOnSamples
    \/ CleanupSamples
    \/ GetFileInfo
    \/ CompareTablesCmd

Spec == Init /\ [][Next]_vars


----------------------------------------------------------------------------
(* What the claims speak of *)

\* The events of request r's log that satisfy P, as indices.
Attempts(r) == {i \in DOMAIN log[r] : log[r][i].op \in {"head", "diff"}}

\* An extraction that failed, or a comparator run that exited with a status
\* other than 0 or 1.
SamplerFailure(e) ==
    \/ e.op = "head" /\ (e.timed_out \/ e.rc # 0)
    \/ e.op = "diff" /\ ~e.timed_out /\ e.rc \notin {DIFF_SUCCESS_CODE, DIFF_DIFFERENT_CODE}

\* A run of an external tool that did not do its work.
ToolFailure(e) ==
    \/ e.op = "head" /\ (e.timed_out \/ e.rc # 0)
    \/ e.op = "diff" /\ (e.timed_out \/ e.rc \notin {DIFF_SUCCESS_CODE, DIFF_DIFFERENT_CODE})

Returned(r) == result[r].status = "returned"
Succeeded(r) == Returned(r) /\ result[r].value.success
Failed(r) == Returned(r) /\ ~result[r].value.success

\* The first n lines of a file.
FirstLines(lines, n) == SubSeq(lines, 1, Min(n, Len(lines)))

\* The first line at which two files differ (a line of one file beyond the
\* end of the other differs); 0 if there is none.
FirstDifference(a, b) ==
    LET p == CommonPrefix(a, b, 1)
    IN IF p = Len(a) /\ p = Len(b) THEN 0 ELSE p + 1

\* The smallest rung of the ladder that is at least k.
SmallestRung(k) == CHOOSE s \in Ladder : s >= k /\ \A t \in Ladder : t >= k => s <= t

\* C1: once an extraction has failed or the comparator has exited with a
\* status other than 0 or 1, the request extracts and compares nothing more
\* (it only removes sample files), and its call ends with an error result,
\* never with a result that has files_identical.
C1_FailureAborts ==
    \A r \in procs : \A i \in DOMAIN log[r] :
        SamplerFailure(log[r][i]) =>
            /\ \A j \in DOMAIN log[r] : j > i => log[r][j].op = "remove"
            /\ pc[r] \in {"cleanup", "done"}
            /\ pc[r] = "done" => Failed(r)
            /\ "files_identical" \notin DOMAIN result[r].value

\* C1 witness: the comparator exited with status 2 at the third rung, after
\* two rungs found no difference, and the call has returned.
C1_Witness ==
    \E r \in procs :
        /\ pc[r] = "done"
        /\ args[r].kind = "full"
        /\ args[r].diff_lines >= 0
        /\ \E i \in DOMAIN log[r] :
              log[r][i].op = "diff" /\ log[r][i].rc = 2 /\ log[r][i].size = 100

\* C2 (as claimed): two datasets with equal first 500 lines, every
\* materialization, extraction and comparator run succeeding: the call
\* returns files_identical = true.
C2_EqualPrefixIdentical ==
    \A r \in procs :
        ( /\ pc[r] = "done"
          /\ args[r].kind = "full"
          /\ cause[r] # "DataUnavailable"
          /\ \A i \in DOMAIN log[r] : ~ToolFailure(log[r][i])
          /\ FirstLines(LinesOf(db.A), 500) = FirstLines(LinesOf(db.B), 500) )
        => Succeeded(r) /\ result[r].value.files_identical

\* C3 (as claimed): two dataset files whose first difference is at line
\* k <= 500: the sampler returns identical = false with the smallest rung
\* that is at least k, and for k <= 5 with both lines present the diff text
\* shows both.
C3_SmallestRevealingRung ==
    \A r \in procs :
        LET a == LinesOf(db.A)
            b == LinesOf(db.B)
            k == FirstDifference(a, b)
        IN ( /\ pc[r] \in {"fileinfo", "done"}
             /\ diff_result[r] # <<>>
             /\ csv_path[r][1] # csv_path[r][2]
             /\ k \in 1..500 )
           => /\ ~diff_result[r].identical
              /\ diff_result[r].sample_size = SmallestRung(k)
              /\ (k <= 5 /\ k <= Len(a) /\ k <= Len(b)) =>
                    /\ \E t \in DOMAIN diff_result[r].output :
                          diff_result[r].output[t] = "-" \o ToString(a[k])
                    /\ \E t \in DOMAIN diff_result[r].output :
                          diff_result[r].output[t] = "+" \o ToString(b[k])

\* C4 (as claimed): after the call has ended, no sample file it wrote is
\* on disk.
C4_NoSampleFileLeft ==
    \A r \in procs :
        pc[r] = "done" =>
            \A i \in DOMAIN log[r] :
                log[r][i].op = "write" => ~exists(disk, log[r][i].path)

\* C5: the rungs are attempted in the order of the ladder, each only after
\* every smaller rung was compared with exit status 0, each compared at
\* most once, and nothing is extracted or compared after a rung reported
\* a difference.
C5_SequentialEscalation ==
    \A r \in procs : \A i \in Attempts(r) :
        LET e == log[r][i] IN
        /\ e.size \in Ladder
        /\ \A s \in Ladder : s < e.size =>
              \E j \in 1..(i - 1) :
                  /\ log[r][j].op = "diff" /\ log[r][j].size = s
                  /\ ~log[r][j].timed_out /\ log[r][j].rc = DIFF_SUCCESS_CODE
        /\ \A j \in Attempts(r) : j < i => log[r][j].size <= e.size
        /\ \A j \in Attempts(r) :
              (j # i /\ log[r][j].op = "diff" /\ e.op = "diff") => log[r][j].size # e.size
        /\ (e.op = "diff" /\ ~e.timed_out /\ e.rc = DIFF_DIFFERENT_CODE) =>
              \A j \in DOMAIN log[r] : j > i => log[r][j].op = "remove"

\* C5 witness: the third rung reported a difference, the first two none,
\* and the call has returned.
C5_Witness ==
    \E r \in procs :
        /\ pc[r] = "done"
        /\ Succeeded(r)
        /\ \E i \in DOMAIN log[r] :
              log[r][i].op = "diff" /\ log[r][i].rc = 1 /\ log[r][i].size = 100

\* C7 (as claimed): every file the engine writes or removes is neither of
\* the two dataset files of the call.
C7_DatasetsUntouched ==
    \A r \in procs : \A i \in DOMAIN log[r] :
        log[r][i].op \in {"write", "remove"} =>
            log[r][i].path \notin {csv_path[r][1], csv_path[r][2]}


\* Whether an error message names a failure of the given class: it is
\* recognised by the text the code puts at its start.
ErrorNames(msg, why) ==
    /\ Len(msg) > 0
    /\ CASE why = "DataUnavailable" ->
              msg[1] \in {"Query execution failed: ", "No data found in table "}
         [] why = "ExtractionError" ->
              /\ Len(msg) > 1
              /\ msg[1] = "Error running diff: "
              /\ msg[2] = "Failed to create sample file: "
         [] why = "TimeoutError" -> msg[1] = "Diff command timed out after "
         [] why = "ComparatorFailure" -> msg[1] = "Diff command failed: "
         [] why = "FileSizeError" -> msg[1] = "[Errno 2] No such file or directory"
         [] OTHER -> FALSE

\* A failure happened in the call of request r.
FailureOccurred(r) ==
    \/ cause[r] # "none"
    \/ \E i \in DOMAIN log[r] : ToolFailure(log[r][i])

----------------------------------------------------------------------------
(* Two requests at once, each in a process of its own (the command line    *)
(* tool beside the server, or two servers) on one temp directory: their    *)
(* file and process operations interleave.                                 *)

ConcArgs ==
    {[kind |-> "full", ref1 |-> RefA, ref2 |-> ref2, diff_lines |-> DEFAULT_DIFF_LINES] :
        ref2 \in {TableRef("t2", None, None), TableRef("t1", "dev", None)}}
    \cup {[kind |-> "quick", ref1 |-> RefA, ref2 |-> TableRef("t2", None, None)]}

InitConc ==
    /\ db \in {[A |-> a, B |-> b, colsA |-> DefaultColumns, colsB |-> DefaultColumns] :
                a \in {Dataset(3, 0)}, b \in {Dataset(3, 0), Dataset(3, 2)}}
    /\ InitCall({1, 2}, ConcArgs)

SpecConc == InitConc /\ [][Next]_vars

\* The paths request r has written sample files to.
SamplePaths(r) == {log[r][i].path : i \in {j \in DOMAIN log[r] : log[r][j].op = "write"}}

\* C6 (as claimed): two requests on the same pair of datasets never write a
\* sample file of the same name, and a sample file a request has created
\* and not yet compared is on disk until it compares it.
C6_DistinctSampleNames ==
    \A r1 \in procs : \A r2 \in procs \ {r1} :
        (args[r1] = args[r2] /\ args[r1].kind = "full") =>
            /\ SamplePaths(r1) \cap SamplePaths(r2) = {}
            /\ pc[r1] \in {"sample2", "diff"} => exists(disk, sample_file[r1][1])
            /\ pc[r1] = "diff" => exists(disk, sample_file[r1][2])

----------------------------------------------------------------------------
(* The claims about the Output Bounder *)

\* The lines of a text: what its newlines end, and what follows the last
\* newline if anything does.
TextLines(text) ==
    LET pieces == split(text)
    IN IF pieces[Len(pieces)] = <<>> THEN SubSeq(pieces, 1, Len(pieces) - 1)
       ELSE pieces

\* The count a truncation notice states, "" for a line that is no notice.
NoticeCount(line) ==
    IF Len(line) > 2 /\ line[1] = "... (truncated " THEN line[2] ELSE ""

\* C9 (as claimed): a text of more than 10 lines is bounded to exactly 11
\* lines, its first 10 lines and a notice that states how many lines of the
\* text follow the first 10.
C9_BoundedLineCount ==
    (bounder.pc \in {"bounded", "rebounded"}
        /\ Len(TextLines(bounder.text)) > MAX_DIFF_OUTPUT_LINES) =>
    LET given == TextLines(bounder.text)
        kept == TextLines(bounder.out)
    IN /\ Len(kept) = MAX_DIFF_OUTPUT_LINES + 1
       /\ SubSeq(kept, 1, MAX_DIFF_OUTPUT_LINES) = SubSeq(given, 1, MAX_DIFF_OUTPUT_LINES)
       /\ NoticeCount(kept[Len(kept)]) = ToString(Len(given) - MAX_DIFF_OUTPUT_LINES)

\* C10 (as claimed): the bounder applied to its own output returns that
\* output.
C10_Idempotent ==
    bounder.pc = "rebounded" => bounder.again = bounder.out

----------------------------------------------------------------------------
(* The claims about quick_compare_tables *)

\* A call of quick_compare_tables that returned success = true.
QuickSucceeded(r) == args[r].kind = "quick" /\ Succeeded(r)

\* The number of rows of a table: the lines of its serialization after the
\* header line.
RowCount(ds) == Len(LinesOf(ds)) - 1

\* The column names of a column list.
NamesOf(cols) == {cols[i].col_name : i \in DOMAIN cols}

\* C11: a successful quick_compare_tables reports the row count of table1
\* minus that of table2 and the column count of table1 minus that of
\* table2, with their signs.
C11_SignedDifferences ==
    \A r \in procs :
        QuickSucceeded(r) =>
            /\ result[r].value.row_count_difference = RowCount(db.A) - RowCount(db.B)
            /\ result[r].value.column_count_difference = Len(db.colsA) - Len(db.colsB)

\* C11 witness: table2 has more rows and more columns than table1, and
\* both reported differences are negative.
C11_Witness ==
    \E r \in procs :
        /\ QuickSucceeded(r)
        /\ RowCount(db.A) < RowCount(db.B)
        /\ Len(db.colsA) < Len(db.colsB)
        /\ result[r].value.row_count_difference < 0
        /\ result[r].value.column_count_difference < 0

\* C12: when the two tables do not have the same column names,
\* columns_match is false, the names table2 lacks are exactly those listed
\* as missing in table2, the names table1 lacks exactly those listed as
\* missing in table1, and the two lists share no name.
C12_MissingColumnsOneSided ==
    \A r \in procs :
        (QuickSucceeded(r) /\ NamesOf(db.colsA) # NamesOf(db.colsB)) =>
            LET v == result[r].value IN
            /\ ~v.columns_match
            /\ v.columns_missing_in_table2 = NamesOf(db.colsA) \ NamesOf(db.colsB)
            /\ v.columns_missing_in_table1 = NamesOf(db.colsB) \ NamesOf(db.colsA)
            /\ v.columns_missing_in_table1 \cap v.columns_missing_in_table2 = {}

\* C12 witness: table1 has two columns, table2 has one of them, listed
\* second in table1, and the other is reported missing in table2.
C12_Witness ==
    \E r \in procs :
        /\ QuickSucceeded(r)
        /\ Len(db.colsA) = 2 /\ Len(db.colsB) = 1
        /\ db.colsB[1].col_name = db.colsA[2].col_name
        /\ db.colsA[1].col_name # db.colsA[2].col_name
        /\ result[r].value.columns_missing_in_table2 = {db.colsA[1].col_name}

\* C13: when the two tables have the same set of column names,
\* columns_match is true and both missing lists are empty, whatever the
\* declared types and the order of the columns.
C13_NamesOnly ==
    \A r \in procs :
        (QuickSucceeded(r) /\ NamesOf(db.colsA) = NamesOf(db.colsB)) =>
            /\ result[r].value.columns_match
            /\ result[r].value.columns_missing_in_table2 = {}
            /\ result[r].value.columns_missing_in_table1 = {}

\* C13 witness: the same two column names in opposite order and with
\* different declared types, reported as matching.
C13_Witness ==
    \E r \in procs :
        /\ QuickSucceeded(r)
        /\ Len(db.colsA) = 2 /\ Len(db.colsB) = 2
        /\ db.colsA[1].col_name # db.colsA[2].col_name
        /\ db.colsA[1].col_name = db.colsB[2].col_name
        /\ db.colsA[2].col_name = db.colsB[1].col_name
        /\ db.colsA[1].data_type # db.colsB[2].data_type
        /\ result[r].value.columns_match

----------------------------------------------------------------------------
(* The claims about the report, the context length, timeouts and the      *)
(* collaborator's failures                                                 *)

\* C14 (as claimed): a successful compare_tables result holds the identical
\* flag, the bounded diff text and the sample size the sampler returned,
\* and the sizes of the two dataset files.
C14_ReportContents ==
    \A r \in procs :
        (args[r].kind = "full" /\ Succeeded(r)) =>
            LET v == result[r].value IN
            /\ "files_identical" \in DOMAIN v
            /\ v.files_identical = diff_result[r].identical
            /\ "diff_output" \in DOMAIN v
            /\ v.diff_output = diff_result[r].output
            /\ "file_size1" \in DOMAIN v /\ "file_size2" \in DOMAIN v
            /\ v.file_size1 = getsize(disk, csv_path[r][1])
            /\ v.file_size2 = getsize(disk, csv_path[r][2])
            /\ "sample_size" \in DOMAIN v
            /\ v.sample_size = diff_result[r].sample_size

\* C15: whenever a request is about to run the comparator, at any rung,
\* the context length of the command is at most 10, and it is the number
\* that follows -u in the command line.
C15_ContextCapped ==
    \A r \in procs :
        pc[r] = "diff" =>
            /\ diff_cmd(r).context <= 10
            /\ diff_cmd(r).argv[1] = "diff"
            /\ diff_cmd(r).argv[2] = "-u" \o ToString(diff_cmd(r).context)

\* C15 witness: the caller asked for 11 lines of context, the request is
\* about to run the comparator at the third rung, with 10.
C15_Witness ==
    \E r \in procs :
        /\ pc[r] = "diff"
        /\ args[r].diff_lines = 11
        /\ INCREMENTAL_SAMPLE_SIZES[rung[r]] = 100
        /\ diff_cmd(r).argv[2] = "-u10"

\* C16: once a run of the comparator has timed out, the request extracts
\* and compares nothing more, and its call ends with an error result whose
\* message is "Diff command timed out after 5 minutes", 5 minutes being
\* the 300 s bound; the result has no files_identical.
C16_TimeoutAborts ==
    \A r \in procs : \A i \in DOMAIN log[r] :
        (log[r][i].op = "diff" /\ log[r][i].timed_out) =>
            /\ DIFF_TIMEOUT_SECONDS = 300 /\ 5 * 60 = DIFF_TIMEOUT_SECONDS
            /\ \A j \in DOMAIN log[r] : j > i => log[r][j].op = "remove"
            /\ pc[r] \in {"cleanup", "done"}
            /\ pc[r] = "done" =>
                  /\ Failed(r)
                  /\ result[r].value.error =
                        <<"Diff command timed out after ", "5", " minutes">>
                  /\ "files_identical" \notin DOMAIN result[r].value

\* C16 witness: the comparator timed out at the third rung and the call
\* has returned.
C16_Witness ==
    \E r \in procs :
        /\ pc[r] = "done"
        /\ Failed(r)
        /\ \E i \in DOMAIN log[r] :
              /\ log[r][i].op = "diff" /\ log[r][i].timed_out
              /\ log[r][i].size = 100

\* The error the collaborator raised for one of the two tables of request r.
CollaboratorErrors(r) ==
    {get_table_data(db, ref, q).exc.msg :
        <<ref, q>> \in {x \in {args[r].ref1, args[r].ref2} \X BOOLEAN :
                          ~get_table_data(db, x[1], x[2]).ok}}

\* C17: a call of compare_tables in which the collaborator failed to
\* materialize a dataset returns success = false with the collaborator's
\* message, and has extracted no sample, written no sample file and run no
\* comparator.
C17_DataUnavailable ==
    \A r \in procs :
        (args[r].kind = "full" /\ cause[r] = "DataUnavailable") =>
            /\ pc[r] = "done"
            /\ Failed(r)
            /\ result[r].value.error \in CollaboratorErrors(r)
            /\ \A i \in DOMAIN log[r] : log[r][i].op = "to_csv"
            /\ \A p \in DOMAIN disk : \E i \in DOMAIN log[r] : log[r][i].path = p

\* C17 witness: the first dataset was materialized, the second was not,
\* and the call has returned.
C17_Witness ==
    \E r \in procs :
        /\ args[r].kind = "full"
        /\ cause[r] = "DataUnavailable"
        /\ Failed(r)
        /\ Len(log[r]) = 1

----------------------------------------------------------------------------
(* The claims about the lifetime of sample files, the command line tool    *)
(* and the frame of quick_compare_tables                                   *)

\* A call of compare_tables that has not ended.
InProgress(r) == args[r].kind = "full" /\ pc[r] # "done"

\* The paths any request has written a sample file to.
WrittenSamples == UNION {SamplePaths(r) : r \in procs}

\* The sample files of the rung request r is comparing.
CurrentSamples(r) ==
    IF pc[r] \in {"sample2", "diff", "cleanup"}
    THEN {sample_name(csv_path[r][i], INCREMENTAL_SAMPLE_SIZES[rung[r]], Suffix(i)) :
             i \in 1..2}
    ELSE {}

\* C18 (as claimed): while a call of compare_tables is in progress, every
\* sample file on disk is one of the (at most two) sample files of the rung
\* a call in progress is comparing, and no sample file is written for two
\* sample sizes.
C18_SamplesOfCurrentRungOnly ==
    \A r \in procs :
        InProgress(r) =>
            /\ \A p \in DOMAIN disk \cap WrittenSamples :
                  \E q \in procs : InProgress(q) /\ p \in CurrentSamples(q)
            /\ Cardinality(DOMAIN disk \cap SamplePaths(r)) <= 2
            /\ \A i \in DOMAIN log[r] : \A j \in DOMAIN log[r] :
                  ( /\ log[r][i].op = "write" /\ log[r][j].op = "write"
                    /\ log[r][i].path = log[r][j].path )
                  => log[r][i].size = log[r][j].size

\* C19 (as claimed): when the command line tool has exited after a call
\* that returned success = false, its exit status is not 0, whatever the
\* output format.
C19_FailureExitsNonZero ==
    \A r \in procs :
        (cli[r].status = "exited" /\ Failed(r)) => cli[r].exit_code # 0

\* The two requests of metadata quick_compare_tables makes, in order.
InfoRequests ==
    << Event("get_table_info", 1, NoPath, 0, FALSE),
       Event("get_table_info", 2, NoPath, 0, FALSE) >>

\* C20: a call of quick_compare_tables asks for the summary of table1 and
\* then for that of table2 and performs no other operation (no
\* materialization, no file, no process); the file system is as it was;
\* its successful result holds the two summaries as the collaborator
\* returned them.
C20_MetadataOnly ==
    \A r \in procs :
        args[r].kind = "quick" =>
            /\ log[r] \in {<<>>, SubSeq(InfoRequests, 1, 1), InfoRequests}
            /\ DOMAIN disk = {}
            /\ csv_path[r] = <<NoPath, NoPath>> /\ sample_file[r] = <<NoPath, NoPath>>
            /\ Succeeded(r) =>
                  /\ log[r] = InfoRequests
                  /\ result[r].value.table1_info =
                        [table_name |-> _build_full_table_name(args[r].ref1.table,
                                            args[r].ref1.catalog, args[r].ref1.schema),
                         columns |-> db.colsA, row_count |-> RowCount(db.A)]
                  /\ result[r].value.table2_info =
                        [table_name |-> _build_full_table_name(args[r].ref2.table,
                                            args[r].ref2.catalog, args[r].ref2.schema),
                         columns |-> db.colsB, row_count |-> RowCount(db.B)]

\* C20 witness: a successful call on two tables whose summaries differ in
\* their columns and their row counts.
C20_Witness ==
    \E r \in procs :
        /\ QuickSucceeded(r)
        /\ log[r] = InfoRequests
        /\ result[r].value.table1_info.columns # result[r].value.table2_info.columns
        /\ result[r].value.table1_info.row_count # result[r].value.table2_info.row_count

----------------------------------------------------------------------------
(* The claims about the Identical verdict, the verdict of one comparator   *)
(* run, and short outputs                                                  *)

\* Request r has extracted the first n lines of its dataset file i.
Extracted(r, i, n) ==
    \E j \in DOMAIN log[r] :
        /\ log[r][j].op = "head" /\ log[r][j].size = n
        /\ log[r][j].path = csv_path[r][i]
        /\ ~log[r][j].timed_out /\ log[r][j].rc = 0

\* Request r has compared its samples of n lines, with exit status 0.
ComparedEqual(r, n) ==
    \E j \in DOMAIN log[r] :
        /\ log[r][j].op = "diff" /\ log[r][j].size = n
        /\ ~log[r][j].timed_out /\ log[r][j].rc = 0

\* C23: the sampler has returned identical = true only if each of the
\* sizes 5, 25, 100 and 500 was extracted from both dataset files and
\* compared with exit status 0; the result then says that the files were
\* verified through progressive sampling, with sample size 500 and return
\* code 0.
C23_IdenticalAfterAllRungs ==
    \A r \in procs :
        (args[r].kind = "full" /\ diff_result[r] # <<>> /\ diff_result[r].identical) =>
            /\ \A n \in {5, 25, 100, 500} :
                  Extracted(r, 1, n) /\ Extracted(r, 2, n) /\ ComparedEqual(r, n)
            /\ diff_result[r].output =
                  <<"Files are identical (verified through progressive sampling)">>
            /\ diff_result[r].sample_size = 500
            /\ diff_result[r].return_code = 0

\* C23 witness: two tables of 600 lines that differ at line 501 only; the
\* sampler has returned identical = true and the call has succeeded.
C23_Witness ==
    \E r \in procs :
        /\ args[r].kind = "full"
        /\ Succeeded(r)
        /\ result[r].value.files_identical
        /\ db.A = Dataset(MaxLines, 0) /\ db.B = Dataset(MaxLines, 501)
        /\ diff_result[r].sample_size = 500

\* Whether the tokens of `part` occur in `whole`, in order and adjacent.
Contains(whole, part) ==
    \E k \in 0..(Len(whole) - Len(part)) :
        SubSeq(whole, k + 1, k + Len(part)) = part

\* C24 (as claimed): whenever a request is about to run the comparator,
\* whatever the run ends with short of a timeout, exit status 0 lets the
\* rung count as identical, exit status 1 makes the sampler return
\* identical = false with the bounded diff text, and any other status makes
\* the call return an error that contains the text of the comparator's
\* error stream.
C24_VerdictByExitStatus ==
    \A r \in procs : \A outcome \in Outcomes \ {"timeout"} :
        pc[r] = "diff" =>
            LET res == _execute_diff_command(disk, diff_cmd(r), outcome)
                out == rung_outcome(diff_cmd(r), res, INCREMENTAL_SAMPLE_SIZES[rung[r]],
                                    csv_path[r][1], csv_path[r][2])
            IN /\ res.returncode = 0 => out.kind = "continue"
               /\ res.returncode = 1 =>
                     /\ out.kind = "return"
                     /\ ~out.value.identical
                     /\ out.value.output = _limit_diff_output(res.stdout)
               /\ res.returncode \notin {0, 1} =>
                     /\ out.kind = "raise"
                     /\ LET ended == compare_tables_except(_run_diff_command_except(out.exc))
                        IN /\ ended.status = "returned"
                           /\ ~ended.value.success
                           /\ Len(res.stderr) > 0
                           /\ Contains(ended.value.error, res.stderr)

\* C25 (as claimed): a text of at most 10 lines, newline-terminated or not,
\* is returned unchanged by the bounder.
C25_ShortOutputUnchanged ==
    (bounder.pc \in {"bounded", "rebounded"}
        /\ Len(TextLines(bounder.text)) <= MAX_DIFF_OUTPUT_LINES) =>
    /\ bounder.out = bounder.text
    /\ \A i \in DOMAIN bounder.out : bounder.out[i] # "... (truncated "

----------------------------------------------------------------------------
(* The claims about the dataset files, repeated column names, negative     *)
(* context lengths and the timeout of an extraction                        *)

\* The full name of the table a reference names.
FullName(ref) == _build_full_table_name(ref.table, ref.catalog, ref.schema)

\* C26 (as claimed): when a call of compare_tables on two different tables
\* has materialized both and is about to sample them, the two dataset
\* files are distinct and each holds the lines of its own table.
C26_DistinctDatasetFiles ==
    \A r \in procs :
        ( /\ args[r].kind = "full"
          /\ pc[r] = "sample1" /\ rung[r] = 1
          /\ FullName(args[r].ref1) # FullName(args[r].ref2) )
        => /\ csv_path[r][1] # csv_path[r][2]
           /\ disk[csv_path[r][1]] = TableLines(db, FullName(args[r].ref1))
           /\ disk[csv_path[r][2]] = TableLines(db, FullName(args[r].ref2))

\* The file operations request q performs in a step: the events the step
\* appends to its log.
NewEvents(q) == {log'[q][i] : i \in (Len(log[q]) + 1)..Len(log'[q])}

\* C27 (as claimed): while a call of compare_tables has materialized its
\* first dataset and has not ended, no step of another request writes a
\* file at the path of one of its dataset files.
C27_NoForeignOverwrite ==
    [][ \A r \in procs : \A q \in procs \ {r} :
          ( /\ args[r].kind = "full"
            /\ pc[r] \notin {"retrieve1", "done"} )
          => \A e \in NewEvents(q) :
                e.op \in {"to_csv", "write"} =>
                    e.path \notin {csv_path[r][1], csv_path[r][2]} ]_vars

\* C28 (as claimed): a successful quick_compare_tables result with
\* columns_match = true has column_count_difference = 0.
C28_MatchImpliesSameCount ==
    \A r \in procs :
        (QuickSucceeded(r) /\ result[r].value.columns_match) =>
            result[r].value.column_count_difference = 0

\* C29 (as claimed): whenever a request is about to run the comparator, the
\* context length of the command lies in 0..10, and the comparator, left to
\* do its work on the two sample files, exits with status 0 or 1.
C29_ContextNeverNegative ==
    \A r \in procs :
        pc[r] = "diff" =>
            /\ diff_cmd(r).context \in 0..10
            /\ (exists(disk, sample_file[r][1]) /\ exists(disk, sample_file[r][2])) =>
                  _execute_diff_command(disk, diff_cmd(r), "ok").returncode \in {0, 1}

\* C30 (as claimed): an error result that says the diff command timed out
\* is returned only by a call in which a comparator run timed out, and a
\* call in which an extraction timed out returns an error that does not
\* say so.
C30_TimeoutNamesItsStep ==
    \A r \in procs :
        (args[r].kind = "full" /\ pc[r] = "done" /\ Failed(r)) =>
            LET error == result[r].value.error
                says_diff_timeout ==
                    Len(error) > 0 /\ error[1] = "Diff command timed out after "
            IN /\ says_diff_timeout =>
                     \E i \in DOMAIN log[r] : log[r][i].op = "diff" /\ log[r][i].timed_out
               /\ (\E i \in DOMAIN log[r] : log[r][i].op = "head" /\ log[r][i].timed_out)
                     => ~says_diff_timeout

----------------------------------------------------------------------------
(* The query tool, query_tool.py.  A query is the sequence of its          *)
(* characters.                                                             *)

DEFAULT_QUERY_LIMIT == 1000
SELECT_KEYWORD == <<"s", "e", "l", "e", "c", "t">>
LIMIT_KEYWORD == <<"l", "i", "m", "i", "t">>

\* str.lower, on the letters
UpperToLower ==
    ("A" :> "a") @@ ("B" :> "b") @@ ("C" :> "c") @@ ("D" :> "d") @@ ("E" :>
    "e") @@ ("F" :> "f") @@ ("G" :> "g") @@ ("H" :> "h") @@ ("I" :> "i") @@
    ("J" :> "j") @@ ("K" :> "k") @@ ("L" :> "l") @@ ("M" :> "m") @@ ("N" :>
    "n") @@ ("O" :> "o") @@ ("P" :> "p") @@ ("Q" :> "q") @@ ("R" :> "r") @@
    ("S" :> "s") @@ ("T" :> "t") @@ ("U" :> "u") @@ ("V" :> "v") @@ ("W" :>
    "w") @@ ("X" :> "x") @@ ("Y" :> "y") @@ ("Z" :> "z")
lower(text) ==
    [i \in DOMAIN text |->
        IF text[i] \in DOMAIN UpperToLower THEN UpperToLower[text[i]] ELSE text[i]]

\* str.strip(): the text without its leading and trailing white space
Whitespace == {" ", "\t", "\n"}
RECURSIVE lstrip(_)
lstrip(text) ==
    IF Len(text) > 0 /\ text[1] \in Whitespace THEN lstrip(Tail(text)) ELSE text
RECURSIVE rstrip(_, _)
rstrip(text, chars) ==
    IF Len(text) > 0 /\ text[Len(text)] \in chars
    THEN rstrip(SubSeq(text, 1, Len(text) - 1), chars)
    ELSE text
strip(text) == rstrip(lstrip(text), Whitespace)

\* str.startswith, and the operator `in` on strings
startswith(text, prefix) ==
    Len(prefix) <= Len(text) /\ SubSeq(text, 1, Len(prefix)) = prefix
is_in(part, text) ==
    \E k \in 0..(Len(text) - Len(part)) : SubSeq(text, k + 1, k + Len(part)) = part

\* str(n) for a natural number n
DigitChars == <<"0", "1", "2", "3", "4", "5", "6", "7", "8", "9">>
RECURSIVE str(_)
str(n) ==
    IF n < 10 THEN <<DigitChars[n + 1]>>
    ELSE str(n \div 10) \o <<DigitChars[(n % 10) + 1]>>

\* QueryTool._has_limit_clause
_has_limit_clause(query_lower) == is_in(LIMIT_KEYWORD, query_lower)

\* QueryTool._is_select_query
_is_select_query(query_lower) == startswith(query_lower, SELECT_KEYWORD)

\* QueryTool._add_limit_if_needed
_add_limit_if_needed(query, limit) ==
    LET query_lower == strip(lower(query))
    IN IF _has_limit_clause(query_lower) \/ ~_is_select_query(query_lower)
       THEN query
       ELSE rstrip(query, {";"}) \o <<" ", "L", "I", "M", "I", "T", " ">> \o str(limit)

\* QueryTool._create_success_response, _handle_databricks_error and
\* _handle_unexpected_error: the report of a call
_create_success_response(limited_query, rows) ==
    [success |-> TRUE, query |-> limited_query, row_count |-> rows]
_handle_query_error(query, error) ==
    [success |-> FALSE, error |-> error, query |-> query]

\* The queries of the model, by their parts: leading white space, the
\* statement up to the table name, the table name, a LIMIT clause or none,
\* a final semicolon or none.
Leads == {<<>>, <<" ">>}
SelectHeads == {<<"S", "E", "L", "E", "C", "T", " ", "*", " ", "F", "R", "O", "M", " ">>,
                <<"s", "e", "l", "e", "c", "t", " ", "*", " ", "f", "r", "o", "m", " ">>}
OtherHeads == {<<"D", "E", "L", "E", "T", "E", " ", "F", "R", "O", "M", " ">>}
TableNames == {<<"t">>, <<"l", "i", "m", "i", "t", "s">>}
LimitClauses == {<<" ", "L", "I", "M", "I", "T", " ", "5">>,
                 <<" ", "l", "i", "m", "i", "t", " ", "5">>}
Ends == {<<>>, <<";">>}
Limits == {1, DEFAULT_QUERY_LIMIT}

QueryParts ==
    [lead : Leads, head : SelectHeads \cup OtherHeads, table : TableNames,
     clause : {<<>>} \cup LimitClauses, end : Ends]

\* The text of a query.
QueryText(parts) ==
    parts.lead \o parts.head \o parts.table \o parts.clause \o parts.end

\* No request of the comparison engine and no text for the Output Bounder.
Idle ==
    /\ bounder = [pc |-> "off", text |-> <<>>, out |-> <<>>, again |-> <<>>]
    /\ procs = {}
    /\ db = <<>>
    /\ disk = <<>>
    /\ args = <<>>
    /\ pc = <<>>
    /\ csv_path = <<>>
    /\ rung = <<>>
    /\ sample_file = <<>>
    /\ pend = <<>>
    /\ diff_result = <<>>
    /\ result = <<>>
    /\ log = <<>>
    /\ cause = <<>>
    /\ cli = <<>>

\* A call of execute_query(query, limit) about to be made.
QueryInit ==
    /\ Idle
    /\ server = <<>>
    /\ qt \in {[pc |-> "call", parts |-> parts, query |-> QueryText(parts),
                limit |-> limit, sent |-> <<>>, response |-> <<>>] :
                  parts \in QueryParts, limit \in Limits}

\* QueryTool.execute_query: the query is sent to the service with the limit
\* added if needed; the service returns rows or raises.
ExecuteQuery ==
    /\ qt.pc = "call"
    /\ LET limited_query == _add_limit_if_needed(qt.query, qt.limit)
       IN \E outcome \in {"rows", "DatabricksServiceError", "Exception"} :
            qt' = [qt EXCEPT
                     !.pc = "done",
                     !.sent = limited_query,
                     !.response =
                         IF outcome = "rows"
                         THEN _create_success_response(limited_query, 1)
                         ELSE _handle_query_error(qt.query, outcome)]
    /\ UNCHANGED <<bounder, engine, server>>

SpecQuery == QueryInit /\ [][ExecuteQuery]_vars

----------------------------------------------------------------------------
(* The claim about the limit of a query *)

\* The query is a SELECT statement; it has a LIMIT clause.
IsSelectStatement(parts) == parts.head \in SelectHeads
HasLimitClause(parts) == parts.clause \in LimitClauses

\* The query without its final semicolon, with ' LIMIT n' appended.
WithLimit(parts, n) ==
    parts.lead \o parts.head \o parts.table \o parts.clause
        \o <<" ", "L", "I", "M", "I", "T", " ">> \o str(n)

\* C21: execute_query sends the query with ' LIMIT n' appended, after
\* removing a final semicolon, exactly when the query is a SELECT statement
\* without a LIMIT clause; a query with a LIMIT clause and a statement that
\* is not a SELECT are sent unchanged.
C21_LimitAddedExactlyWhenNeeded ==
    qt # <<>> /\ qt.pc = "done" =>
        qt.sent = IF IsSelectStatement(qt.parts) /\ ~HasLimitClause(qt.parts)
                  THEN WithLimit(qt.parts, qt.limit)
                  ELSE qt.query

----------------------------------------------------------------------------
(* The server, server.py.  An object is a record of its fields, NoObject    *)
(* where Python has None.                                                  *)

MaxCalls == 3

NoObject == [class |-> "NoneType"]

\* The values of the config parameter of initialize.
ServerConfigs ==
    {NoObject} \cup
    {[class |-> "DatabricksConfig", catalog |-> DEFAULT_CATALOG,
      schema |-> DEFAULT_SCHEMA, temp_dir |-> d] :
        d \in {DEFAULT_TEMP_DIR, "/data/tmp"}}

\* The tools in the order _register_query_tools and
\* _register_comparison_tools register them.
ToolNames ==
    <<"execute_query", "get_table_info", "compare_tables", "quick_compare_tables">>

\* DatabricksService.__init__: the service of a config, or the exception
\* raised: reading temp_dir of None, or the directory cannot be made.
DatabricksService(config, makedirs_ok) ==
    IF config = NoObject
    THEN [raised |-> TRUE, exc |-> Exc("AttributeError", "temp_dir")]
    ELSE IF ~makedirs_ok
    THEN [raised |-> TRUE,
          exc |-> Exc("DatabricksServiceError", "Failed to create temp directory")]
    ELSE [raised |-> FALSE, value |-> [class |-> "DatabricksService", config |-> config]]

\* QueryTool.__init__ and TableCompareTool.__init__
QueryTool(databricks_service) ==
    [class |-> "QueryTool", databricks_service |-> databricks_service]
TableCompareTool(databricks_service) ==
    [class |-> "TableCompareTool", databricks_service |-> databricks_service]

\* DatabricksMCPServer._reset_services
_reset_services(self) ==
    [self EXCEPT !.databricks_service = NoObject,
                 !.query_tool = NoObject,
                 !.table_compare_tool = NoObject]

\* DatabricksMCPServer.__init__
DatabricksMCPServer ==
    _reset_services([config |-> NoObject, databricks_service |-> NoObject,
                     query_tool |-> NoObject, table_compare_tool |-> NoObject,
                     tools |-> <<>>, calls |-> <<>>])

\* DatabricksMCPServer._initialize_services: the server after it, and
\* whether it raised
_initialize_services(self, makedirs_ok) ==
    LET service == DatabricksService(self.config, makedirs_ok)
    IN IF service.raised
       THEN [raised |-> TRUE, self |-> self]
       ELSE [raised |-> FALSE,
             self |-> [self EXCEPT
                         !.databricks_service = service.value,
                         !.query_tool = QueryTool(service.value),
                         !.table_compare_tool = TableCompareTool(service.value)]]

\* DatabricksMCPServer._register_tools: the first `registered` tools are
\* registered; the registration of the next one, if any, raises.
_register_tools(self, registered) ==
    [raised |-> registered < Len(ToolNames),
     self |-> [self EXCEPT !.tools = @ \o SubSeq(ToolNames, 1, registered)]]

_handle_initialization_error_without_reset(self) ==
    [returned |-> FALSE, self |-> self]

\* DatabricksMCPServer._handle_initialization_error
_handle_initialization_error(self) ==
    [returned |-> FALSE, self |-> _reset_services(self)]

\* DatabricksMCPServer.initialize: what it returns, and the server after it
initialize(self, config, makedirs_ok, registered) ==
    LET configured == [self EXCEPT !.config = config]
        services == _initialize_services(configured, makedirs_ok)
        tools == _register_tools(services.self, registered)
    IN IF services.raised THEN _handle_initialization_error(services.self)
       ELSE IF tools.raised THEN _handle_initialization_error(tools.self)
       ELSE [returned |-> TRUE, self |-> tools.self]

\* DatabricksMCPServer.is_initialized
is_initialized(self) ==
    /\ self.config # NoObject
    /\ self.databricks_service # NoObject
    /\ self.query_tool # NoObject
    /\ self.table_compare_tool # NoObject

\* A server after its construction.
ServerInit ==
    /\ Idle
    /\ qt = <<>>
    /\ server = DatabricksMCPServer

\* A call of initialize; server.calls keeps what each call was given and
\* what it returned.
Initialize ==
    /\ Len(server.calls) < MaxCalls
    /\ \E config \in ServerConfigs, makedirs_ok \in BOOLEAN,
          registered \in 0..Len(ToolNames) :
         LET call == initialize(server, config, makedirs_ok, registered)
         IN server' = [call.self EXCEPT
                         !.calls = @ \o <<[config |-> config,
                                           returned |-> call.returned]>>]
    /\ UNCHANGED <<bounder, engine, qt>>

SpecServer == ServerInit /\ [][Initialize]_vars

----------------------------------------------------------------------------
(* The claim about the server's initialization *)

\* What the last call of initialize returned.
LastReturned == server.calls[Len(server.calls)].returned

ServicesSet ==
    /\ server.databricks_service # NoObject
    /\ server.query_tool # NoObject
    /\ server.table_compare_tool # NoObject

ServicesNone ==
    /\ server.databricks_service = NoObject
    /\ server.query_tool = NoObject
    /\ server.table_compare_tool = NoObject

\* C22: after any sequence of initialize calls, the last call either
\* returned True and databricks_service, query_tool and table_compare_tool
\* are all set, or returned False and all three are None; is_initialized()
\* is true exactly when the last call returned True.
C22_InitializeAllOrNothing ==
    server # <<>> /\ server.calls # <<>> =>
        /\ \/ LastReturned /\ ServicesSet
           \/ ~LastReturned /\ ServicesNone
        /\ is_initialized(server) <=> LastReturned

\* C22: a call that returned True was followed by a call that set the
\* services, registered two tools, failed at the third and returned False.
C22_Witness ==
    /\ server # <<>>
    /\ Len(server.calls) >= 2
    /\ server.calls[Len(server.calls) - 1].returned
    /\ ~LastReturned
    /\ server.config # NoObject
    /\ Len(server.tools) = Len(ToolNames) + 2
    /\ ServicesNone
    /\ ~is_initialized(server)

====
